---- MODULE Spec2Model ----
(***************************************************************************)
(* A model of the wire codec of package protocol (src/types.go): VarInt    *)
(* and VarLong, length-prefixed strings and packet framing.                *)
(*                                                                         *)
(* Machine words are bit vectors (sequences of 0 and 1, bit 0, the least   *)
(* significant, first), so that 64-bit shifts, truncations and sign        *)
(* handling are computed as the Go code computes them.  Bytes and Go int   *)
(* values that stay small are plain integers.  A byte slice is a sequence  *)
(* of bytes; Go's index i is the sequence's index i+1.                     *)
(***************************************************************************)
EXTENDS Integers, Sequences, FiniteSets, TLC

VARIABLES
    op,      \* the call that ran last, "none" between calls
    arg,     \* its value argument
    buf0,    \* the caller's buffer before the call
    buf,     \* the caller's buffer now
    ret,     \* what the call returned
    made,    \* the array the call allocated with make, <<>> if none
    dataAt,  \* where the returned packet's data lives: array, offset, length
    thr,     \* each thread's call in progress: position, arguments, result
    frame,   \* the local variables i and v of the calls in progress
    cbuf     \* each thread's own buffer

vars == <<op, arg, buf0, buf, ret, made, dataAt, thr, frame, cbuf>>

----------------------------------------------------------------------------
(* Constants of the source                                                 *)

cbits == 7
msb == 2 ^ cbits
cmask == msb - 1

maxIntBytes == 5
maxLongBytes == 10

MaxInt16 == 32767
MaxInt32 == 2147483647
MinInt32 == -MaxInt32 - 1

nil == "nil"
errBufTooSmall == "buf too small"
errValueTooLarge == "value too large"
\* not an error value: the Go runtime aborted the call (index or length out of range)
panic == "panic"

\* errors.New("packet is too large") in part_001: a value of its own, which
\* is no sentinel
errPacketTooLarge == "packet is too large"

\* the error of the string codec in the other copy of the package
errStringTooLong == "string too long"

----------------------------------------------------------------------------
(* Go's integer types and operators                                        *)

W32 == 32
W64 == 64

Min(a, b) == IF a < b THEN a ELSE b

\* bit i of a word: element i + 1 of the sequence
Bit(v, i) == v[i + 1]

\* a division that rounds down, as Go's does not
GoDivFloor(a, b) == a \div b

\* Go's / on int truncates toward zero
GoDiv(a, b) == IF a >= 0 THEN a \div b ELSE -((-a) \div b)

\* a & b on small non-negative integers (bytes)
RECURSIVE BitAnd(_, _)
BitAnd(a, b) ==
    IF a = 0 \/ b = 0 THEN 0
    ELSE (a % 2) * (b % 2) + 2 * BitAnd(a \div 2, b \div 2)

Zero32 == [i \in 1..W32 |-> 0]
Zero64 == [i \in 1..W64 |-> 0]

\* uint64(n) for a byte or a small non-negative int n
U64(n) == [i \in 1..W64 |-> IF i < W32 THEN (n \div (2 ^ (i - 1))) % 2 ELSE 0]

\* the two's-complement pattern of an int32 n
I32(n) ==
    [i \in 1..W32 |->
        IF i < W32 THEN (n \div (2 ^ (i - 1))) % 2 ELSE IF n < 0 THEN 1 ELSE 0]

\* the value of bits 0..k-1 of a word, as a non-negative integer (k <= 31)
RECURSIVE LowVal(_, _)
LowVal(w, k) == IF k = 0 THEN 0 ELSE LowVal(w, k - 1) + Bit(w, k - 1) * (2 ^ (k - 1))

\* the int32 whose two's-complement pattern is v
IntOf32(v) ==
    LET lo == LowVal(v, W32 - 1)
    IN  IF Bit(v, W32 - 1) = 1 THEN (lo - 2 ^ (W32 - 2)) - 2 ^ (W32 - 2) ELSE lo

\* int32(n) for a Go int n: the low 32 bits, read as signed (n within int32 here)
Int32Of(n) == IntOf32(I32(n))

\* byte(v): the low eight bits
ByteOf(v) == LowVal(v, 8)

\* uint64 to int32: the low 32 bits
Trunc32(v) == [i \in 1..W32 |-> v[i]]

\* int32 to uint64 directly: sign extension
SignExt32(v) == [i \in 1..W64 |-> IF i <= W32 THEN v[i] ELSE v[W32]]

\* int32 to uint32 to uint64: zero extension
ZeroExt32(v) == [i \in 1..W64 |-> IF i <= W32 THEN v[i] ELSE 0]

Shl64(v, k) == [i \in 1..W64 |-> IF i > k THEN v[i - k] ELSE 0]
Shr64(v, k) == [i \in 1..W64 |-> IF i + k <= W64 THEN v[i + k] ELSE 0]
\* >> on an int64: the sign bit fills the vacated bits
Sar64(v, k) == [i \in 1..W64 |-> IF i + k <= W64 THEN v[i + k] ELSE v[W64]]
Or64(a, b) == [i \in 1..W64 |-> IF a[i] = 1 \/ b[i] = 1 THEN 1 ELSE 0]
AndNot64(a, b) == [i \in 1..W64 |-> IF a[i] = 1 /\ b[i] = 0 THEN 1 ELSE 0]

\* bits.Len64(v): the number of bits needed to represent v, 0 for v = 0
Len64(v) ==
    IF v = Zero64 THEN 0
    ELSE 1 + CHOOSE i \in 0..(W64 - 1) :
                 Bit(v, i) = 1 /\ \A j \in (i + 1)..(W64 - 1) : Bit(v, j) = 0

\* int64(n) for an int32 or int16 n: sign extension
I64(n) == SignExt32(I32(n))

\* the conversion to an 8-bit type: the low 8 bits, read as signed
Int16Of64_Int8(v) == LowVal(v, 7) - Bit(v, 7) * (2 ^ 7)

\* int16(v) for an int64 v: the low 16 bits, read as signed
Int16Of64(v) == LowVal(v, 15) - Bit(v, 15) * (2 ^ 15)

\* int32(v) for an int64 v: the low 32 bits, read as signed
Int32Of64(v) == IntOf32(Trunc32(v))

\* binary.BigEndian.Uint64(b): b[0] is the most significant byte
BigEndianUint64(b) ==
    [i \in 1..W64 |-> (b[8 - ((i - 1) \div 8)] \div (2 ^ ((i - 1) % 8))) % 2]

\* PutUint64 storing the least significant byte first
BigEndianPutUint64_LittleEndian(b, v) ==
    [j \in 1..8 |-> ByteOf(Shr64(v, 8 * (j - 1)))] \o SubSeq(b, 9, Len(b))

\* binary.BigEndian.PutUint64(b, v): the buffer afterwards
BigEndianPutUint64(b, v) ==
    [j \in 1..8 |-> ByteOf(Shr64(v, 8 * (8 - j)))] \o SubSeq(b, 9, Len(b))

\* buf[n:]
From(b, n) == SubSeq(b, n + 1, Len(b))

\* copy(dst, src): the destination afterwards and the number of bytes copied
Copy(dst, src) ==
    LET m == Min(Len(dst), Len(src))
    IN  [buf |-> SubSeq(src, 1, m) \o SubSeq(dst, m + 1, Len(dst)),
         m   |-> m]

----------------------------------------------------------------------------
(* VarInt / VarLong                                                        *)

RECURSIVE getVarLoop(_, _, _, _)
getVarLoop(b, maxBytes, i, v) ==
    IF i < Len(b) /\ i < maxBytes
    THEN LET v2 == Or64(v, Shl64(U64(BitAnd(b[i + 1], cmask)), i * cbits))
         IN  IF BitAnd(b[i + 1], msb) = 0
             THEN [v |-> v2, n |-> i + 1, err |-> nil]
             ELSE getVarLoop(b, maxBytes, i + 1, v2)
    ELSE IF Len(b) < maxBytes
         THEN [v |-> Zero64, n |-> Len(b), err |-> errBufTooSmall]
         ELSE [v |-> Zero64, n |-> maxBytes, err |-> errValueTooLarge]

\* getVarN returning i where the source returns i + 1
getVarN_ShortCount(b, maxBytes) ==
    LET r == getVarLoop(b, maxBytes, 0, Zero64)
    IN  IF r.err = nil THEN [r EXCEPT !.n = r.n - 1] ELSE r

\* getVarN testing len(buf) <= maxBytes after the loop
getVarN_LeqMax(b, maxBytes) ==
    LET r == getVarLoop(b, maxBytes, 0, Zero64)
    IN  IF r.err = errValueTooLarge /\ Len(b) = maxBytes
        THEN [r EXCEPT !.n = Len(b), !.err = errBufTooSmall]
        ELSE r

getVarN(b, maxBytes) == getVarLoop(b, maxBytes, 0, Zero64)

\* getVarInt rejecting a fifth byte with bits above the 32nd
getVarInt_CheckOverflow(b) ==
    LET r == getVarN(b, maxIntBytes)
    IN  IF r.err = nil /\ r.n = maxIntBytes /\ b[maxIntBytes] > 15
        THEN [v |-> 0, n |-> maxIntBytes, err |-> errValueTooLarge]
        ELSE [v |-> IntOf32(Trunc32(r.v)), n |-> r.n, err |-> r.err]

getVarInt(b) ==
    LET r == getVarN(b, maxIntBytes)
    IN  [v |-> IntOf32(Trunc32(r.v)), n |-> r.n, err |-> r.err]

\* getVarLong reading with the VarInt width
getVarLong_IntWidth(b) == getVarN(b, maxIntBytes)

getVarLong(b) == getVarN(b, maxLongBytes)

RECURSIVE putVarLoop(_, _, _, _)
putVarLoop(b, v, maxBytes, i) ==
    IF i < Len(b) /\ i < maxBytes
    THEN IF AndNot64(v, U64(cmask)) = Zero64
         THEN [buf |-> [b EXCEPT ![i + 1] = ByteOf(v)], n |-> i + 1, err |-> nil]
         ELSE putVarLoop([b EXCEPT ![i + 1] = ByteOf(Or64(v, U64(msb)))],
                         Shr64(v, cbits), maxBytes, i + 1)
    ELSE IF Len(b) < maxBytes
         THEN [buf |-> b, n |-> Len(b), err |-> errBufTooSmall]
         ELSE [buf |-> b, n |-> maxBytes, err |-> errValueTooLarge]

\* putVarN without the len(buf) < maxBytes branch after the loop
putVarN_NoShortBranch(b, v, maxBytes) ==
    LET r == putVarLoop(b, v, maxBytes, 0)
    IN  IF r.err = errBufTooSmall THEN [r EXCEPT !.n = maxBytes, !.err = errValueTooLarge] ELSE r

\* putVarN clearing the bytes of the field it did not need
putVarN_PadToMax(b, v, maxBytes) ==
    LET r == putVarLoop(b, v, maxBytes, 0)
    IN  [r EXCEPT !.buf = [j \in 1..Len(b) |->
                              IF j > r.n /\ j <= maxBytes THEN 0 ELSE r.buf[j]]]

\* putVarN restoring the buffer when it runs out of room
putVarN_RestoreOnShort(b, v, maxBytes) ==
    LET r == putVarLoop(b, v, maxBytes, 0)
    IN  IF r.err = errBufTooSmall THEN [r EXCEPT !.buf = b] ELSE r

putVarN(b, v, maxBytes) == putVarLoop(b, v, maxBytes, 0)

\* putVarInt converting with uint64(v), which sign-extends
putVarInt_SignExt(b, v) == putVarN(b, SignExt32(I32(v)), maxIntBytes)

putVarInt(b, v) == putVarN(b, ZeroExt32(I32(v)), maxIntBytes)

putVarLong(b, v) == putVarN(b, v, maxLongBytes)

\* lenVarN with a division that rounds down
lenVarN_FloorDiv(v) == 1 + GoDivFloor(Len64(v) - 1, cbits)

lenVarN(v) == 1 + GoDiv(Len64(v) - 1, cbits)

\* lenVarInt converting with uint64(v), which sign-extends
lenVarInt_SignExt(v) == lenVarN(SignExt32(I32(v)))

lenVarInt(v) == lenVarN(ZeroExt32(I32(v)))

lenVarLong(v) == lenVarN(v)

----------------------------------------------------------------------------
(* VarInt / VarLong as src/varint.go has them                               *)

RECURSIVE varint_getVarLoop(_, _, _, _)
varint_getVarLoop(b, maxBytes, i, v) ==
    IF i < Len(b) /\ i < maxBytes
    THEN LET v2 == Or64(v, Shl64(U64(BitAnd(b[i + 1], cmask)), i * cbits))
         IN  IF BitAnd(b[i + 1], msb) = 0
             THEN [v |-> v2, n |-> i + 1, err |-> nil]
             ELSE varint_getVarLoop(b, maxBytes, i + 1, v2)
    ELSE IF Len(b) < maxBytes
         THEN [v |-> Zero64, n |-> maxBytes, err |-> errBufTooSmall]
         ELSE [v |-> Zero64, n |-> maxBytes, err |-> errValueTooLarge]

\* getVarN of varint.go reporting len(buf) on a short buffer
varint_getVarN_LenCount(b, maxBytes) ==
    LET r == varint_getVarLoop(b, maxBytes, 0, Zero64)
    IN  IF r.err = errBufTooSmall THEN [r EXCEPT !.n = Len(b)] ELSE r

varint_getVarN(b, maxBytes) == varint_getVarLoop(b, maxBytes, 0, Zero64)

RECURSIVE varint_putVarLoop(_, _, _, _)
varint_putVarLoop(b, v, maxBytes, i) ==
    IF i < Len(b) /\ i < maxBytes
    THEN IF AndNot64(v, U64(cmask)) = Zero64
         THEN [buf |-> [b EXCEPT ![i + 1] = ByteOf(v)], n |-> i + 1, err |-> nil]
         ELSE varint_putVarLoop([b EXCEPT ![i + 1] = ByteOf(Or64(v, U64(msb)))],
                                Shr64(v, cbits), maxBytes, i + 1)
    ELSE IF Len(b) < maxBytes
         THEN [buf |-> b, n |-> maxBytes, err |-> errBufTooSmall]
         ELSE [buf |-> b, n |-> maxBytes, err |-> errValueTooLarge]

varint_putVarN(b, v, maxBytes) == varint_putVarLoop(b, v, maxBytes, 0)

----------------------------------------------------------------------------
(* Strings                                                                 *)

\* getString without the limit on the declared length
getString_NoLimit(b) ==
    LET r == getVarInt(b)
        n == r.n
        length == r.v
    IN  IF r.err # nil THEN [s |-> <<>>, n |-> n, err |-> r.err]
        ELSE IF Len(b) < n + length
             THEN [s |-> <<>>, n |-> n, err |-> errBufTooSmall]
        ELSE IF n + length < n
             THEN [s |-> <<>>, n |-> 0, err |-> panic]
        ELSE [s |-> SubSeq(b, n + 1, n + length), n |-> n + length, err |-> nil]

\* getString reporting the bytes a truncated string would have needed
getString_NeededCount(b) ==
    LET r == getVarInt(b)
        n == r.n
        length == r.v
    IN  IF r.err # nil THEN [s |-> <<>>, n |-> n, err |-> r.err]
        ELSE IF length > MaxInt16
             THEN [s |-> <<>>, n |-> n, err |-> errValueTooLarge]
        ELSE IF Len(b) < n + length
             THEN [s |-> <<>>, n |-> n + length, err |-> errBufTooSmall]
        ELSE IF n + length < n
             THEN [s |-> <<>>, n |-> 0, err |-> panic]
        ELSE [s |-> SubSeq(b, n + 1, n + length), n |-> n + length, err |-> nil]

getString(b) ==
    LET r == getVarInt(b)
        n == r.n
        length == r.v
    IN  IF r.err # nil THEN [s |-> <<>>, n |-> n, err |-> r.err]
        ELSE IF length > MaxInt16
             THEN [s |-> <<>>, n |-> n, err |-> errValueTooLarge]
        ELSE IF Len(b) < n + length
             THEN [s |-> <<>>, n |-> n, err |-> errBufTooSmall]
        \* buf[n : n+length] with n+length < n: slice bounds out of range
        ELSE IF n + length < n
             THEN [s |-> <<>>, n |-> 0, err |-> panic]
        ELSE [s |-> SubSeq(b, n + 1, n + length), n |-> n + length, err |-> nil]

\* putString copying to buf instead of buf[n:]
putString_NoOffset(b, s) ==
    LET length == Len(s)
    IN  IF length > MaxInt16
        THEN [buf |-> b, n |-> 0, err |-> errValueTooLarge]
        ELSE LET r == putVarInt(b, Int32Of(length))
                 n == r.n
             IN  IF r.err # nil THEN [buf |-> r.buf, n |-> n, err |-> r.err]
                 ELSE LET c == Copy(r.buf, s)
                      IN  [buf |-> c.buf,
                           n   |-> n + c.m,
                           err |-> IF c.m < Len(s) THEN errBufTooSmall ELSE nil]

\* putString checking the length after it has written the prefix
putString_LateCheck(b, s) ==
    LET length == Len(s)
        r == putVarInt(b, Int32Of(length))
        n == r.n
    IN  IF r.err # nil THEN [buf |-> r.buf, n |-> n, err |-> r.err]
        ELSE IF length > MaxInt16
             THEN [buf |-> r.buf, n |-> 0, err |-> errValueTooLarge]
        ELSE LET c == Copy(From(r.buf, n), s)
             IN  [buf |-> SubSeq(r.buf, 1, n) \o c.buf,
                  n   |-> n + c.m,
                  err |-> IF c.m < Len(s) THEN errBufTooSmall ELSE nil]

putString(b, s) ==
    LET length == Len(s)
    IN  IF length > MaxInt16
        THEN [buf |-> b, n |-> 0, err |-> errValueTooLarge]
        ELSE LET r == putVarInt(b, Int32Of(length))
                 n == r.n
             IN  IF r.err # nil THEN [buf |-> r.buf, n |-> n, err |-> r.err]
                 ELSE LET c == Copy(From(r.buf, n), s)
                      IN  [buf |-> SubSeq(r.buf, 1, n) \o c.buf,
                           n   |-> n + c.m,
                           err |-> IF c.m < Len(s) THEN errBufTooSmall ELSE nil]

----------------------------------------------------------------------------
(* Positions                                                               *)

positionLen == 8

\* position struct: x int32 (size 26, offset 38), y int16 (size 12, offset 26),
\* z int32 (size 26, offset 0)
xSize == 26
xOffset == 38
ySize == 12
yOffset == 26
zSize == 26
zOffset == 0

zeroPosition == [x |-> 0, y |-> 0, z |-> 0]

\* getField shifting right as on a uint64: no sign extension
getField_Logical(n, size, offset) ==
    Shr64(Shl64(n, W64 - (size + offset)), W64 - size)

getField(n, size, offset) ==
    Sar64(Shl64(n, W64 - (size + offset)), W64 - size)

\* putField shifting the value to its offset without cutting it to size bits
putField_NoCut(n, size, offset) == Shl64(n, offset)

putField(n, size, offset) ==
    Shr64(Shl64(n, W64 - size), W64 - (size + offset))

\* getPosition reporting the full width on a short buffer
getPosition_ShortFull(b) ==
    IF Len(b) < positionLen
    THEN [p |-> zeroPosition, n |-> positionLen, err |-> errBufTooSmall]
    ELSE LET v == BigEndianUint64(b)
         IN  [p   |-> [x |-> Int32Of64(getField(v, xSize, xOffset)),
                       y |-> Int16Of64(getField(v, ySize, yOffset)),
                       z |-> Int32Of64(getField(v, zSize, zOffset))],
              n   |-> positionLen,
              err |-> nil]

getPosition(b) ==
    IF Len(b) < positionLen
    THEN [p |-> zeroPosition, n |-> Len(b), err |-> errBufTooSmall]
    ELSE LET v == BigEndianUint64(b)
         IN  [p   |-> [x |-> Int32Of64(getField(v, xSize, xOffset)),
                       y |-> Int16Of64(getField(v, ySize, yOffset)),
                       z |-> Int32Of64(getField(v, zSize, zOffset))],
              n   |-> positionLen,
              err |-> nil]

\* putPosition reporting 0 bytes on a short buffer
putPosition_ShortZero(b, p) ==
    IF Len(b) < positionLen
    THEN [buf |-> b, n |-> 0, err |-> errBufTooSmall]
    ELSE LET v1 == Or64(Zero64, putField(I64(p.x), xSize, xOffset))
             v2 == Or64(v1, putField(I64(p.y), ySize, yOffset))
             v3 == Or64(v2, putField(I64(p.z), zSize, zOffset))
         IN  [buf |-> BigEndianPutUint64(b, v3), n |-> positionLen, err |-> nil]

putPosition(b, p) ==
    IF Len(b) < positionLen
    THEN [buf |-> b, n |-> Len(b), err |-> errBufTooSmall]
    ELSE LET v1 == Or64(Zero64, putField(I64(p.x), xSize, xOffset))
             v2 == Or64(v1, putField(I64(p.y), ySize, yOffset))
             v3 == Or64(v2, putField(I64(p.z), zSize, zOffset))
         IN  [buf |-> BigEndianPutUint64(b, v3), n |-> positionLen, err |-> nil]

----------------------------------------------------------------------------
(* Positions as src/unnamed/part_000 has them                               *)

part000_getPosition(b) ==
    IF Len(b) < 8
    THEN [p |-> zeroPosition, n |-> 0, err |-> errBufTooSmall]
    ELSE LET v == BigEndianUint64(b)
         IN  [p   |-> [x |-> Int32Of64(Sar64(v, 38)),
                       y |-> Int16Of64(Sar64(Shl64(v, 26), 52)),
                       z |-> Int32Of64(Sar64(Shl64(v, 38), 38))],
              n   |-> 8,
              err |-> nil]

\* v is assembled and then dropped: nothing stores it in buf
part000_putPosition(b, p) ==
    IF Len(b) < 8
    THEN [buf |-> b, n |-> 0, err |-> errBufTooSmall]
    ELSE LET v1 == Or64(Zero64, Shl64(I64(p.x), 38))
             v2 == Or64(v1, Shr64(Shl64(I64(p.y), 52), 26))
             v3 == Or64(v2, Shr64(Shl64(I64(p.z), 38), 38))
         IN  [buf |-> b, n |-> 8, err |-> nil]

----------------------------------------------------------------------------
(* Packets                                                                 *)

\* getPacket taking the declared length for the length of the data
getPacket_NoOpcodeLen(b) ==
    LET r1 == getVarInt(b)
        n1 == r1.n
        length == r1.v
        r2 == getVarInt(From(b, n1))
        m == r2.n
        n == n1 + m
    IN  IF r1.err # nil THEN [id |-> 0, data |-> <<>>, n |-> n1, err |-> r1.err]
        ELSE IF r2.err # nil THEN [id |-> 0, data |-> <<>>, n |-> n, err |-> r2.err]
        ELSE IF Len(b) - n < length
             THEN [id |-> 0, data |-> <<>>, n |-> n, err |-> errBufTooSmall]
        ELSE IF length < 0
             THEN [id |-> 0, data |-> <<>>, n |-> 0, err |-> panic]
        ELSE [id |-> r2.v, data |-> SubSeq(b, n + 1, n + length), n |-> n + length,
              err |-> nil]

\* getPacket reporting a truncated payload at the end of the length prefix
getPacket_TruncAtPrefix(b) ==
    LET r1 == getVarInt(b)
        n1 == r1.n
        length == r1.v
        r2 == getVarInt(From(b, n1))
        m == r2.n
        n == n1 + m
    IN  IF r1.err # nil THEN [id |-> 0, data |-> <<>>, n |-> n1, err |-> r1.err]
        ELSE IF r2.err # nil THEN [id |-> 0, data |-> <<>>, n |-> n, err |-> r2.err]
        ELSE IF Len(b) - n1 < length
             THEN [id |-> 0, data |-> <<>>, n |-> n1, err |-> errBufTooSmall]
        \* make([]byte, l) with l < 0: len out of range
        ELSE IF length < m
             THEN [id |-> 0, data |-> <<>>, n |-> 0, err |-> panic]
        ELSE LET l == length - m
             IN  [id |-> r2.v, data |-> SubSeq(b, n + 1, n + l), n |-> n + l, err |-> nil]

\* Go's int is 64 bits wide, so int(length) - m and n + l never overflow in
\* the source.  With n = n1 + m, the test len(buf) < n + l is the test
\* len(buf) - n1 < length, and l < 0 is length < m: both are evaluated in
\* that form, which stays within 32 bits.
getPacket(b) ==
    LET r1 == getVarInt(b)
        n1 == r1.n
        length == r1.v
        r2 == getVarInt(From(b, n1))
        m == r2.n
        n == n1 + m
    IN  IF r1.err # nil THEN [id |-> 0, data |-> <<>>, n |-> n1, err |-> r1.err]
        ELSE IF r2.err # nil THEN [id |-> 0, data |-> <<>>, n |-> n, err |-> r2.err]
        ELSE IF Len(b) - n1 < length
             THEN [id |-> 0, data |-> <<>>, n |-> n, err |-> errBufTooSmall]
        \* make([]byte, l) with l < 0: len out of range
        ELSE IF length < m
             THEN [id |-> 0, data |-> <<>>, n |-> 0, err |-> panic]
        ELSE LET l == length - m
             IN  [id |-> r2.v, data |-> SubSeq(b, n + 1, n + l), n |-> n + l, err |-> nil]

\* putPacket computing the length from the payload alone
putPacket_NoIdLen(b, p) ==
    LET length == Len(p.data)
        r1 == putVarInt(b, Int32Of(length))
        n1 == r1.n
        r2 == putVarInt(From(r1.buf, n1), p.id)
        b2 == SubSeq(r1.buf, 1, n1) \o r2.buf
        n2 == n1 + r2.n
        c == Copy(From(b2, n2), p.data)
    IN  IF length > MaxInt32 THEN [buf |-> b, n |-> 0, err |-> errValueTooLarge]
        ELSE IF r1.err # nil THEN [buf |-> r1.buf, n |-> n1, err |-> r1.err]
        ELSE IF r2.err # nil THEN [buf |-> b2, n |-> n2, err |-> r2.err]
        ELSE [buf |-> SubSeq(b2, 1, n2) \o c.buf,
              n   |-> n2 + c.m,
              err |-> IF c.m < Len(p.data) THEN errBufTooSmall ELSE nil]

putPacket(b, p) ==
    LET length == lenVarInt(p.id) + Len(p.data)
        r1 == putVarInt(b, Int32Of(length))
        n1 == r1.n
        r2 == putVarInt(From(r1.buf, n1), p.id)
        b2 == SubSeq(r1.buf, 1, n1) \o r2.buf
        n2 == n1 + r2.n
        c == Copy(From(b2, n2), p.data)
    IN  IF length > MaxInt32 THEN [buf |-> b, n |-> 0, err |-> errValueTooLarge]
        ELSE IF r1.err # nil THEN [buf |-> r1.buf, n |-> n1, err |-> r1.err]
        ELSE IF r2.err # nil THEN [buf |-> b2, n |-> n2, err |-> r2.err]
        ELSE [buf |-> SubSeq(b2, 1, n2) \o c.buf,
              n   |-> n2 + c.m,
              err |-> IF c.m < Len(p.data) THEN errBufTooSmall ELSE nil]

\* the data of the packet getPacket returns as a view of buf: data := buf[n : n+l]
dataOf_View(b) ==
    LET r == getPacket(b)
    IN  IF r.err # nil THEN [arr |-> "nil", off |-> 0, len |-> 0]
        ELSE [arr |-> "buf", off |-> r.n - Len(r.data), len |-> Len(r.data)]

\* where the data of the packet getPacket returns lives: make([]byte, l) is a
\* new array, which copy fills from buf[n : n+l]; the zero packet has nil data
dataOf(b) ==
    LET r == getPacket(b)
    IN  IF r.err # nil THEN [arr |-> "nil", off |-> 0, len |-> 0]
        ELSE [arr |-> "made", off |-> 0, len |-> Len(r.data)]

\* putPacket on a packet whose data is k bytes, each of them f.  The data is
\* kept as its length and its byte, so that k can reach MaxInt32; the test
\* lenVarInt(p.id) + len(p.data) > MaxInt32 is evaluated as
\* k > MaxInt32 - lenVarInt(id), which stays within 32 bits.
putPacketRun(b, id, f, k) ==
    IF k > MaxInt32 - lenVarInt(id)
    THEN [buf |-> b, n |-> 0, err |-> errValueTooLarge]
    ELSE LET length == lenVarInt(id) + k
             r1 == putVarInt(b, Int32Of(length))
             n1 == r1.n
             r2 == putVarInt(From(r1.buf, n1), id)
             b2 == SubSeq(r1.buf, 1, n1) \o r2.buf
             n2 == n1 + r2.n
             c == Copy(From(b2, n2), [i \in 1..Min(k, Len(b)) |-> f])
         IN  IF r1.err # nil THEN [buf |-> r1.buf, n |-> n1, err |-> r1.err]
             ELSE IF r2.err # nil THEN [buf |-> b2, n |-> n2, err |-> r2.err]
             ELSE [buf |-> SubSeq(b2, 1, n2) \o c.buf,
                   n   |-> n2 + c.m,
                   err |-> IF c.m < k THEN errBufTooSmall ELSE nil]

\* putPacket of part_001 on the same packets: it differs in the error of the
\* length test
part001_putPacketRun(b, id, f, k) ==
    IF k > MaxInt32 - lenVarInt(id)
    THEN [buf |-> b, n |-> 0, err |-> errPacketTooLarge]
    ELSE LET length == lenVarInt(id) + k
             r1 == putVarInt(b, Int32Of(length))
             n1 == r1.n
             r2 == putVarInt(From(r1.buf, n1), id)
             b2 == SubSeq(r1.buf, 1, n1) \o r2.buf
             n2 == n1 + r2.n
             c == Copy(From(b2, n2), [i \in 1..Min(k, Len(b)) |-> f])
         IN  IF r1.err # nil THEN [buf |-> r1.buf, n |-> n1, err |-> r1.err]
             ELSE IF r2.err # nil THEN [buf |-> b2, n |-> n2, err |-> r2.err]
             ELSE [buf |-> SubSeq(b2, 1, n2) \o c.buf,
                   n   |-> n2 + c.m,
                   err |-> IF c.m < k THEN errBufTooSmall ELSE nil]

----------------------------------------------------------------------------
(* The caller: one action per exported operation, each a whole call        *)

MaxRun == 10
MaxTail == 2
MaxDst == 11

Alphabet == {0, 1, 2, 15, 127, 128, 255}
ContBytes == {128, 255}
FillBytes == {0, 170}

\* k bytes c, as a sequence
Run(c, k) == SubSeq([i \in 1..k |-> c], 1, k)

Tails == UNION {[1..n -> Alphabet] : n \in 0..MaxTail}

\* source buffers: a run of continuation-flagged bytes, then any short tail
SrcBufs == {Run(c, k) \o t : c \in ContBytes, k \in 0..MaxRun, t \in Tails}

\* source buffers whose tail is one byte at most
ShortSrcBufs == {b \in SrcBufs : \A i \in 1..(Len(b) - 1) : b[i] \in ContBytes}

\* destination buffers: any length up to MaxDst, prefilled
DstBufs == {Run(f, n) : f \in FillBytes, n \in 0..MaxDst}

\* words with highest set bit k-1 (none for k = 0) and the bits below it
\* all clear (0), all set (1) or alternating (2)
Word(w, k, low) ==
    [i \in 1..w |->
        IF i = k THEN 1
        ELSE IF i > k THEN 0
        ELSE IF low = 2 THEN (i - 1) % 2 ELSE low]

Int32s == {IntOf32(Word(W32, k, low)) : k \in 0..W32, low \in 0..2}
Int64s == {Word(W64, k, low) : k \in 0..W64, low \in 0..2}

MaxStr == 3
StrLens == (0..MaxStr) \cup {cmask, msb, MaxInt16, MaxInt16 + 1}
StrSeeds == {65, 228}

\* a string of n bytes, no two neighbours equal
Str(n, seed) == [i \in 1..n |-> (seed + 31 * i) % 256]

Strings == {Str(n, seed) : n \in StrLens, seed \in StrSeeds}

\* destination buffers for a string: the short ones, and those about its size
StrDstBufs(s) == DstBufs \cup {Run(f, Len(s) + d) : f \in FillBytes, d \in 0..4}

MaxData == 4
DataLens == (0..MaxData) \cup {cmask - 1, cmask}
PacketIds == {0, 4, cmask, msb, -1, MinInt32, MaxInt32}

\* a payload of n bytes counting down to 0
Data(n) == [i \in 1..n |-> (n - i) % 256]

Packets == {[id |-> id, data |-> Data(n)] : id \in PacketIds, n \in DataLens}

\* destination buffers for a packet: the short ones, and those about its size
PktDstBufs(p) == DstBufs \cup {Run(f, Len(p.data) + d) : f \in FillBytes, d \in 0..10}

\* field values: the test's, the ends of each field's range, and values beyond
PosXs == {0, 257, -1, 2 ^ 25 - 1, -(2 ^ 25), 2 ^ 25, MaxInt32, MinInt32}
PosYs == {0, 42, -1, 2 ^ 11 - 1, -(2 ^ 11), 2 ^ 11, -MaxInt16 - 1}
PosZs == {0, -513, -1, 2 ^ 25 - 1, -(2 ^ 25), 2 ^ 25, -(2 ^ 25) - 1, MinInt32}
Positions == [x : PosXs, y : PosYs, z : PosZs]

\* encoded positions with up to MaxTail bytes after them, and short buffers
PosSrcBufs ==
    DstBufs \cup {putPosition(Run(f, positionLen + d), p).buf :
                     p \in Positions, f \in FillBytes, d \in 0..MaxTail}
            \cup [1..positionLen -> {127, 128}]

\* lengths of the data of a packet of one repeated byte: short ones, and the
\* ones that bring lenVarInt(id) + length to MaxInt32 and just past it
RunLens == (0..MaxData) \cup {MaxInt32 - d : d \in 0..(maxIntBytes + 1)}
RunBytes == {7}

\* destination buffers about the size of a position
PosDstBufs == {Run(f, n) : f \in FillBytes, n \in (positionLen - 1)..(positionLen + 1)}

MaxFrames == 3

\* the packets of a stream
FramePackets == {[id |-> id, data |-> Data(n)] : id \in {4, -1}, n \in 0..2}
Streams == UNION {[1..k -> FramePackets] : k \in 1..MaxFrames}

\* the encoding of a packet in a buffer with room for it
PacketBytes(p) ==
    LET r == putPacket(Run(0, 2 * maxIntBytes + Len(p.data)), p)
    IN  SubSeq(r.buf, 1, r.n)

\* the encodings of the first k packets of ps, one after the other
RECURSIVE Frames(_, _)
Frames(ps, k) == IF k = 0 THEN <<>> ELSE Frames(ps, k - 1) \o PacketBytes(ps[k])

\* between calls the caller holds nothing
NoArg == <<>>
NoRet == <<>>
NoData == [arr |-> "nil", off |-> 0, len |-> 0]

\* buffers that open with a one-byte length prefix
PrefixedBufs == {<<a>> \o b : a \in {1, 15}, b \in Tails \cup ShortSrcBufs}

\* encoded packets, built as BenchmarkGetPacket builds them
PktBufs ==
    {LET r == putPacket(Run(0, 2 * maxIntBytes + Len(p.data)), p)
     IN  SubSeq(r.buf, 1, r.n) : p \in {q \in Packets : Len(q.data) <= MaxData}}

\* what the caller writes over a byte
WriteBytes == {85}

\* the bytes the returned packet's data refers to
Payload ==
    SubSeq(IF dataAt.arr = "buf" THEN buf ELSE made, dataAt.off + 1, dataAt.off + dataAt.len)

Threads == {1, 2}

\* i and v kept in one place for all calls, as package-level variables are
Slot_Shared(t) == 1

\* where the call of thread t keeps i and v: they are locals of getVarN and
\* putVarN, so each call in progress has its own
Slot(t) == t

NoFrame == [i |-> 0, v |-> <<>>]
NoResult == [v |-> 0, n |-> 0, err |-> nil]
Idle == [pc |-> "idle", call |-> "none", v |-> 0, buf0 |-> <<>>, ret |-> NoResult,
         mixed |-> FALSE]

\* the calls the threads issue
ThreadCalls ==
    {[call |-> "getVarInt", v |-> 0, b |-> b] :
        b \in {<<>>, <<1>>, <<128, 1>>, <<255, 255, 255>>, <<255, 255, 255, 255, 15>>,
               <<128, 128, 128, 128, 128, 128>>}}
    \cup {[call |-> "putVarInt", v |-> v, b |-> Run(f, n)] :
             v \in {0, 300, -1}, f \in FillBytes, n \in {0, 2, maxIntBytes}}

Init ==
    /\ op = "none"
    /\ arg = NoArg
    /\ buf0 = <<>>
    /\ buf = <<>>
    /\ ret = NoRet
    /\ made = <<>>
    /\ dataAt = NoData
    /\ thr = [t \in Threads |-> Idle]
    /\ frame = [s \in Threads |-> NoFrame]
    /\ cbuf = [t \in Threads |-> <<>>]

CallGetVarInt ==
    /\ op = "none"
    /\ UNCHANGED <<made, dataAt, thr, frame, cbuf>>
    /\ \E b \in SrcBufs :
        /\ op' = "getVarInt"
        /\ arg' = NoArg
        /\ buf0' = b
        /\ buf' = b
        /\ ret' = getVarInt(b)

CallGetVarLong ==
    /\ op = "none"
    /\ UNCHANGED <<made, dataAt, thr, frame, cbuf>>
    /\ \E b \in SrcBufs :
        /\ op' = "getVarLong"
        /\ arg' = NoArg
        /\ buf0' = b
        /\ buf' = b
        /\ ret' = getVarLong(b)

CallPutVarInt ==
    /\ op = "none"
    /\ UNCHANGED <<made, dataAt, thr, frame, cbuf>>
    /\ \E b \in DstBufs, v \in Int32s :
        LET r == putVarInt(b, v)
        IN  /\ op' = "putVarInt"
            /\ arg' = [v |-> v]
            /\ buf0' = b
            /\ buf' = r.buf
            /\ ret' = [n |-> r.n, err |-> r.err]

CallPutVarLong ==
    /\ op = "none"
    /\ UNCHANGED <<made, dataAt, thr, frame, cbuf>>
    /\ \E b \in DstBufs, v \in Int64s :
        LET r == putVarLong(b, v)
        IN  /\ op' = "putVarLong"
            /\ arg' = [v |-> v]
            /\ buf0' = b
            /\ buf' = r.buf
            /\ ret' = [n |-> r.n, err |-> r.err]

CallLenVarInt ==
    /\ op = "none"
    /\ UNCHANGED <<made, dataAt, thr, frame, cbuf>>
    /\ \E v \in Int32s :
        /\ op' = "lenVarInt"
        /\ arg' = [v |-> v]
        /\ buf0' = <<>>
        /\ buf' = <<>>
        /\ ret' = [n |-> lenVarInt(v)]

CallLenVarLong ==
    /\ op = "none"
    /\ UNCHANGED <<made, dataAt, thr, frame, cbuf>>
    /\ \E v \in Int64s :
        /\ op' = "lenVarLong"
        /\ arg' = [v |-> v]
        /\ buf0' = <<>>
        /\ buf' = <<>>
        /\ ret' = [n |-> lenVarLong(v)]

CallGetString ==
    /\ op = "none"
    /\ UNCHANGED <<made, dataAt, thr, frame, cbuf>>
    /\ \E b \in SrcBufs :
        /\ op' = "getString"
        /\ arg' = NoArg
        /\ buf0' = b
        /\ buf' = b
        /\ ret' = getString(b)

CallPutString ==
    /\ op = "none"
    /\ UNCHANGED <<made, dataAt, thr, frame, cbuf>>
    /\ \E s \in Strings :
       \E b \in StrDstBufs(s) :
        LET r == putString(b, s)
        IN  /\ op' = "putString"
            /\ arg' = [s |-> s]
            /\ buf0' = b
            /\ buf' = r.buf
            /\ ret' = [n |-> r.n, err |-> r.err]

CallGetPacket ==
    /\ op = "none"
    /\ \E b \in SrcBufs \cup PrefixedBufs \cup PktBufs :
        /\ op' = "getPacket"
        /\ arg' = NoArg
        /\ buf0' = b
        /\ buf' = b
        /\ ret' = getPacket(b)
        /\ dataAt' = dataOf(b)
        /\ made' = IF dataOf(b).arr = "made" THEN getPacket(b).data ELSE <<>>
    /\ UNCHANGED <<thr, frame, cbuf>>

\* the caller overwrites the buffer it passed to getPacket, byte after byte
WriteBuf ==
    /\ op \in {"getPacket", "getPacket, write buf"}
    /\ ret.err = nil
    /\ \E i \in 1..Len(buf), x \in WriteBytes :
        /\ buf[i] # x
        /\ \A j \in 1..(i - 1) : buf[j] = x
        /\ buf' = [buf EXCEPT ![i] = x]
    /\ op' = "getPacket, write buf"
    /\ UNCHANGED <<arg, buf0, ret, made, dataAt, thr, frame, cbuf>>

\* the caller overwrites a byte of the data of the packet getPacket returned
WriteData ==
    /\ op \in {"getPacket", "getPacket, write data"}
    /\ ret.err = nil
    /\ \E i \in 1..dataAt.len, x \in WriteBytes :
        /\ Payload[i] # x
        /\ IF dataAt.arr = "buf"
           THEN buf' = [buf EXCEPT ![dataAt.off + i] = x] /\ made' = made
           ELSE made' = [made EXCEPT ![dataAt.off + i] = x] /\ buf' = buf
    /\ op' = "getPacket, write data"
    /\ UNCHANGED <<arg, buf0, ret, dataAt, thr, frame, cbuf>>

CallPutPacket ==
    /\ op = "none"
    /\ UNCHANGED <<made, dataAt, thr, frame, cbuf>>
    /\ \E p \in Packets :
       \E b \in PktDstBufs(p) :
        LET r == putPacket(b, p)
        IN  /\ op' = "putPacket"
            /\ arg' = p
            /\ buf0' = b
            /\ buf' = r.buf
            /\ ret' = [n |-> r.n, err |-> r.err]

CallGetPosition ==
    /\ op = "none"
    /\ UNCHANGED <<made, dataAt, thr, frame, cbuf>>
    /\ \E b \in PosSrcBufs :
        /\ op' = "getPosition"
        /\ arg' = NoArg
        /\ buf0' = b
        /\ buf' = b
        /\ ret' = getPosition(b)

CallPutPosition ==
    /\ op = "none"
    /\ UNCHANGED <<made, dataAt, thr, frame, cbuf>>
    /\ \E p \in Positions, b \in PosDstBufs \cup {<<>>} :
        LET r == putPosition(b, p)
        IN  /\ op' = "putPosition"
            /\ arg' = p
            /\ buf0' = b
            /\ buf' = r.buf
            /\ ret' = [n |-> r.n, err |-> r.err]

CallPutPacketRun ==
    /\ op = "none"
    /\ UNCHANGED <<made, dataAt, thr, frame, cbuf>>
    /\ \E id \in PacketIds, f \in RunBytes, k \in RunLens, b \in DstBufs :
        LET r == putPacketRun(b, id, f, k)
        IN  /\ op' = "putPacketRun"
            /\ arg' = [id |-> id, fill |-> f, len |-> k]
            /\ buf0' = b
            /\ buf' = r.buf
            /\ ret' = [n |-> r.n, err |-> r.err]

CallPart001PutPacketRun ==
    /\ op = "none"
    /\ UNCHANGED <<made, dataAt, thr, frame, cbuf>>
    /\ \E id \in PacketIds, f \in RunBytes, k \in RunLens, b \in DstBufs :
        LET r == part001_putPacketRun(b, id, f, k)
        IN  /\ op' = "part001_putPacketRun"
            /\ arg' = [id |-> id, fill |-> f, len |-> k]
            /\ buf0' = b
            /\ buf' = r.buf
            /\ ret' = [n |-> r.n, err |-> r.err]

\* getVarN of varint.go, called as its getVarInt and getVarLong call it
CallVarintGetVarN ==
    /\ op = "none"
    /\ UNCHANGED <<made, dataAt, thr, frame, cbuf>>
    /\ \E b \in ShortSrcBufs, maxBytes \in {maxIntBytes, maxLongBytes} :
        /\ op' = "varint.getVarN"
        /\ arg' = [maxBytes |-> maxBytes]
        /\ buf0' = b
        /\ buf' = b
        /\ ret' = varint_getVarN(b, maxBytes)

\* putVarN of varint.go, called as its putVarInt and putVarLong call it
CallVarintPutVarN ==
    /\ op = "none"
    /\ UNCHANGED <<made, dataAt, thr, frame, cbuf>>
    /\ \E b \in DstBufs, v \in Int64s, maxBytes \in {maxIntBytes, maxLongBytes} :
        LET r == varint_putVarN(b, v, maxBytes)
        IN  /\ maxBytes = maxIntBytes => Len64(v) <= W32
            /\ op' = "varint.putVarN"
            /\ arg' = [v |-> v, maxBytes |-> maxBytes]
            /\ buf0' = b
            /\ buf' = r.buf
            /\ ret' = [n |-> r.n, err |-> r.err]

CallPart000PutPosition ==
    /\ op = "none"
    /\ UNCHANGED <<made, dataAt, thr, frame, cbuf>>
    /\ \E p \in Positions, b \in PosDstBufs :
        LET r == part000_putPosition(b, p)
        IN  /\ op' = "part000.putPosition"
            /\ arg' = p
            /\ buf0' = b
            /\ buf' = r.buf
            /\ ret' = [n |-> r.n, err |-> r.err]

\* the writer has put the packets of a stream one after the other; the
\* reader starts at offset 0
StartStream ==
    /\ op = "none"
    /\ UNCHANGED <<made, dataAt, thr, frame, cbuf>>
    /\ \E ps \in Streams :
        /\ op' = "stream"
        /\ arg' = ps
        /\ buf0' = Frames(ps, Len(ps))
        /\ buf' = Frames(ps, Len(ps))
        /\ ret' = [ps |-> <<>>, n |-> 0, err |-> nil]

\* the reader calls getPacket(buf[offset:]) and advances offset by the count
ReadFrame ==
    /\ op = "stream"
    /\ ret.err = nil
    /\ ret.n < Len(buf)
    /\ LET r == getPacket(From(buf, ret.n))
       IN  ret' = [ps  |-> IF r.err = nil
                           THEN Append(ret.ps, [id |-> r.id, data |-> r.data])
                           ELSE ret.ps,
                   n   |-> ret.n + r.n,
                   err |-> r.err]
    /\ UNCHANGED <<op, arg, buf0, buf, made, dataAt, thr, frame, cbuf>>

\* the caller drops the results; the next call starts from fresh arguments
Return ==
    /\ op # "none"
    /\ op' = "none"
    /\ arg' = NoArg
    /\ buf0' = <<>>
    /\ buf' = <<>>
    /\ ret' = NoRet
    /\ made' = <<>>
    /\ dataAt' = NoData
    /\ UNCHANGED <<thr, frame, cbuf>>

\* another thread has taken a step while the call of thread u was in progress
Mix(t) ==
    [u \in Threads |->
        IF u # t /\ thr[u].pc = "loop" THEN [thr[u] EXCEPT !.mixed = TRUE] ELSE thr[u]]

\* thread t calls getVarInt or putVarInt on its own buffer
ThreadCall ==
    \E t \in Threads, c \in ThreadCalls :
        /\ thr[t].pc = "idle"
        /\ thr' = [Mix(t) EXCEPT ![t] = [pc |-> "loop", call |-> c.call, v |-> c.v,
                                         buf0 |-> c.b, ret |-> NoResult, mixed |-> FALSE]]
        /\ frame' = [frame EXCEPT ![Slot(t)] =
                        [i |-> 0,
                         v |-> IF c.call = "putVarInt" THEN ZeroExt32(I32(c.v)) ELSE Zero64]]
        /\ cbuf' = [cbuf EXCEPT ![t] = c.b]
        /\ UNCHANGED <<op, arg, buf0, buf, ret, made, dataAt>>

\* one turn of the loop of getVarN, or its return
GetVarStep(t) ==
    LET i == frame[Slot(t)].i
        v == frame[Slot(t)].v
        b == cbuf[t]
        return(r) == thr' = [Mix(t) EXCEPT ![t].pc = "done", ![t].ret = r]
    IN  /\ cbuf' = cbuf
        /\ IF i < Len(b) /\ i < maxIntBytes
           THEN LET v2 == Or64(v, Shl64(U64(BitAnd(b[i + 1], cmask)), i * cbits))
                IN  IF BitAnd(b[i + 1], msb) = 0
                    THEN /\ return([v |-> IntOf32(Trunc32(v2)), n |-> i + 1, err |-> nil])
                         /\ frame' = [frame EXCEPT ![Slot(t)].v = v2]
                    ELSE /\ thr' = Mix(t)
                         /\ frame' = [frame EXCEPT ![Slot(t)] = [i |-> i + 1, v |-> v2]]
           ELSE /\ frame' = frame
                /\ IF Len(b) < maxIntBytes
                   THEN return([v |-> 0, n |-> Len(b), err |-> errBufTooSmall])
                   ELSE return([v |-> 0, n |-> maxIntBytes, err |-> errValueTooLarge])

\* one turn of the loop of putVarN, or its return
PutVarStep(t) ==
    LET i == frame[Slot(t)].i
        v == frame[Slot(t)].v
        b == cbuf[t]
        return(r) == thr' = [Mix(t) EXCEPT ![t].pc = "done", ![t].ret = r]
    IN  IF i < Len(b) /\ i < maxIntBytes
        THEN IF AndNot64(v, U64(cmask)) = Zero64
             THEN /\ cbuf' = [cbuf EXCEPT ![t][i + 1] = ByteOf(v)]
                  /\ return([v |-> 0, n |-> i + 1, err |-> nil])
                  /\ frame' = frame
             ELSE /\ cbuf' = [cbuf EXCEPT ![t][i + 1] = ByteOf(Or64(v, U64(msb)))]
                  /\ thr' = Mix(t)
                  /\ frame' = [frame EXCEPT ![Slot(t)] = [i |-> i + 1, v |-> Shr64(v, cbits)]]
        ELSE /\ cbuf' = cbuf
             /\ frame' = frame
             /\ IF Len(b) < maxIntBytes
                THEN return([v |-> 0, n |-> Len(b), err |-> errBufTooSmall])
                ELSE return([v |-> 0, n |-> maxIntBytes, err |-> errValueTooLarge])

ThreadStep ==
    \E t \in Threads :
        /\ thr[t].pc = "loop"
        /\ IF thr[t].call = "getVarInt" THEN GetVarStep(t) ELSE PutVarStep(t)
        /\ UNCHANGED <<op, arg, buf0, buf, ret, made, dataAt>>

\* the caller of thread t takes the result; the call's locals are gone
ThreadReturn ==
    \E t \in Threads :
        /\ thr[t].pc = "done"
        /\ thr' = [thr EXCEPT ![t] = Idle]
        /\ frame' = [frame EXCEPT ![Slot(t)] = NoFrame]
        /\ cbuf' = [cbuf EXCEPT ![t] = <<>>]
        /\ UNCHANGED <<op, arg, buf0, buf, ret, made, dataAt>>

Next ==
    \/ CallGetVarInt
    \/ CallGetVarLong
    \/ CallPutVarInt
    \/ CallPutVarLong
    \/ CallLenVarInt
    \/ CallLenVarLong
    \/ CallGetString
    \/ CallPutString
    \/ CallGetPacket
    \/ CallPutPacket
    \/ WriteBuf
    \/ WriteData
    \/ CallGetPosition
    \/ CallPutPosition
    \/ CallPutPacketRun
    \/ CallPart001PutPacketRun
    \/ CallVarintGetVarN
    \/ CallVarintPutVarN
    \/ CallPart000PutPosition
    \/ StartStream
    \/ ReadFrame
    \/ Return

Spec == Init /\ [][Next]_vars

\* several threads calling the codec at once, each on its own buffer
NextThreads ==
    \/ ThreadCall
    \/ ThreadStep
    \/ ThreadReturn

SpecThreads == Init /\ [][NextThreads]_vars

----------------------------------------------------------------------------
(* Properties                                                              *)

IsNeg64(v) == Bit(v, W64 - 1) = 1
MinInt64 == Word(W64, W64, 0)
MaxInt64 == Word(W64, W64 - 1, 1)

\* the encoding of a VarInt written into a fresh buffer of the full width
VarIntBytes(v) ==
    LET r == putVarInt(Run(0, maxIntBytes), v)
    IN  SubSeq(r.buf, 1, r.n)

\* C1: VarInt round trip.  For every int32 v and every destination of at
\* least 5 bytes, putVarInt returns (k, nil) with k = lenVarInt(v), and
\* getVarInt on the k bytes written returns (v, k, nil).
C1_VarIntRoundTrip ==
    (op = "putVarInt" /\ Len(buf0) >= maxIntBytes) =>
        /\ ret.err = nil
        /\ ret.n = lenVarInt(arg.v)
        /\ getVarInt(SubSeq(buf, 1, ret.n)) = [v |-> arg.v, n |-> ret.n, err |-> nil]

C1_Witness ==
    /\ op = "putVarInt"
    /\ Len(buf0) >= maxIntBytes
    /\ arg.v = MinInt32
    /\ getVarInt(SubSeq(buf, 1, ret.n)).v = MinInt32

\* C2: VarLong round trip.  For every int64 v and every destination of at
\* least 10 bytes, putVarLong returns (k, nil) with k = lenVarLong(v), and
\* getVarLong on the k bytes written returns (v, k, nil); bit 63 comes back
\* from the tenth byte.
C2_VarLongRoundTrip ==
    (op = "putVarLong" /\ Len(buf0) >= maxLongBytes) =>
        /\ ret.err = nil
        /\ ret.n = lenVarLong(arg.v)
        /\ getVarLong(SubSeq(buf, 1, ret.n)) = [v |-> arg.v, n |-> ret.n, err |-> nil]
        /\ Bit(getVarLong(SubSeq(buf, 1, ret.n)).v, W64 - 1) = Bit(arg.v, W64 - 1)

C2_Witness ==
    /\ op = "putVarLong"
    /\ Len(buf0) >= maxLongBytes
    /\ arg.v = MinInt64
    /\ ret.n = maxLongBytes
    /\ Bit(getVarLong(SubSeq(buf, 1, ret.n)).v, W64 - 1) = 1

\* the unsigned 32-bit value of an int32 v divided by 2^(7i), rounded down
\* (i in 0..4); a negative v stands for v + 2^32
RECURSIVE ShiftGroups(_, _)
ShiftGroups(v, i) ==
    IF i = 0 THEN v
    ELSE IF v >= 0 THEN ShiftGroups(v \div 128, i - 1)
    ELSE ShiftGroups(((v + MaxInt32) + 1) \div 128 + 16777216, i - 1)

\* (u >> 7i) & 0x7f
Group(v, i) == ShiftGroups(v, i) % 128

\* the least k in 1..5 with u < 2^(7k)
Groups(v) == CHOOSE k \in 1..5 : ShiftGroups(v, k) = 0 /\ \A h \in 1..(k - 1) : ShiftGroups(v, h) # 0

\* C3: VarInt wire format.  Into a large-enough buffer putVarInt writes
\* exactly k bytes, k the least number in 1..5 with u < 2^(7k); byte i is
\* (u >> 7i) & 0x7f, with 0x80 set for every i < k-1 and clear for i = k-1.
\* 0 -> 00, 127 -> 7f, 128 -> 80 01, MaxInt32 -> ff ff ff ff 07,
\* MinInt32 -> 80 80 80 80 08.
C3_VarIntWireFormat ==
    (op = "putVarInt" /\ Len(buf0) >= Groups(arg.v)) =>
        LET k == Groups(arg.v)
        IN  /\ ret.err = nil
            /\ ret.n = k
            /\ \A i \in 0..(k - 1) :
                   buf[i + 1] = Group(arg.v, i) + (IF i < k - 1 THEN 128 ELSE 0)
            /\ Len(buf) = Len(buf0)
            /\ \A i \in (k + 1)..Len(buf) : buf[i] = buf0[i]
            /\ arg.v = 0 => SubSeq(buf, 1, ret.n) = <<0>>
            /\ arg.v = 127 => SubSeq(buf, 1, ret.n) = <<127>>
            /\ arg.v = 128 => SubSeq(buf, 1, ret.n) = <<128, 1>>
            /\ arg.v = MaxInt32 => SubSeq(buf, 1, ret.n) = <<255, 255, 255, 255, 7>>
            /\ arg.v = MinInt32 => SubSeq(buf, 1, ret.n) = <<128, 128, 128, 128, 8>>

C3_Witness ==
    /\ op = "putVarInt"
    /\ arg.v = MaxInt32
    /\ SubSeq(buf, 1, ret.n) = <<255, 255, 255, 255, 7>>

\* C4: length-function agreement.  lenVarInt(v) is the count a successful
\* putVarInt(buf, v) returns, lenVarLong(v) the count a successful
\* putVarLong(buf, v) returns; for v = 0 the length is 1.
C4_LenAgreesWithPut ==
    /\ (op = "putVarInt" /\ ret.err = nil) => ret.n = lenVarInt(arg.v)
    /\ (op = "putVarLong" /\ ret.err = nil) => ret.n = lenVarLong(arg.v)
    /\ op = "lenVarInt" =>
           LET r == putVarInt(Run(0, maxIntBytes), arg.v)
           IN  r.err = nil /\ ret.n = r.n
    /\ op = "lenVarLong" =>
           LET r == putVarLong(Run(0, maxLongBytes), arg.v)
           IN  r.err = nil /\ ret.n = r.n
    /\ (op = "lenVarInt" /\ arg.v = 0) => ret.n = 1
    /\ (op = "lenVarLong" /\ arg.v = Zero64) => ret.n = 1

C4_Witness ==
    /\ op = "lenVarInt"
    /\ arg.v = 0
    /\ ret.n = 1
    /\ putVarInt(Run(0, 1), arg.v).n = 1

\* C5: negative numbers are maximal width.  For every int32 v < 0,
\* lenVarInt(v) = 5 and putVarInt writes 5 bytes; for every int64 v < 0,
\* lenVarLong(v) = 10 and putVarLong writes 10 bytes.
C5_NegativeIsMaxWidth ==
    /\ (op = "lenVarInt" /\ arg.v < 0) => ret.n = maxIntBytes
    /\ (op = "putVarInt" /\ arg.v < 0 /\ Len(buf0) >= maxIntBytes) =>
           ret.err = nil /\ ret.n = maxIntBytes
    /\ (op = "lenVarLong" /\ IsNeg64(arg.v)) => ret.n = maxLongBytes
    /\ (op = "putVarLong" /\ IsNeg64(arg.v) /\ Len(buf0) >= maxLongBytes) =>
           ret.err = nil /\ ret.n = maxLongBytes

C5_Witness ==
    /\ op = "lenVarInt"
    /\ arg.v = -1
    /\ ret.n = maxIntBytes

\* none of the first min(len(b), max) bytes has its high bit clear
NoTerminator(b, max) == \A i \in 1..Min(Len(b), max) : b[i] >= 128

\* C6: decode error classification.  With max = 5 for getVarInt and 10 for
\* getVarLong, a buffer without a terminating byte among its first
\* min(len, max) bytes yields value 0 and BufTooSmall with consumed = len(buf)
\* when len(buf) < max, ValueTooLarge with consumed = max when
\* len(buf) >= max; bytes at index >= max never influence the result.
C6_DecodeErrorClass ==
    /\ (op = "getVarInt" /\ NoTerminator(buf0, 5)) =>
           /\ ret.v = 0
           /\ IF Len(buf0) < 5
              THEN ret.err = errBufTooSmall /\ ret.n = Len(buf0)
              ELSE ret.err = errValueTooLarge /\ ret.n = 5
    /\ (op = "getVarLong" /\ NoTerminator(buf0, 10)) =>
           /\ ret.v = Zero64
           /\ IF Len(buf0) < 10
              THEN ret.err = errBufTooSmall /\ ret.n = Len(buf0)
              ELSE ret.err = errValueTooLarge /\ ret.n = 10
    /\ op = "getVarInt" => getVarInt(SubSeq(buf0, 1, Min(Len(buf0), 5))) = ret
    /\ op = "getVarLong" => getVarLong(SubSeq(buf0, 1, Min(Len(buf0), 10))) = ret

C6_Witness ==
    /\ op = "getVarLong"
    /\ buf0 = Run(255, 10)
    /\ ret.err = errValueTooLarge
    /\ ret.n = 10

\* C7: encode outcome.  putVarInt(buf, v) returns nil exactly when
\* len(buf) >= lenVarInt(v) and fails with BufTooSmall otherwise, likewise
\* putVarLong with lenVarLong; ValueTooLarge is never returned.
C7_EncodeOutcome ==
    /\ op = "putVarInt" =>
           /\ ret.err = nil <=> Len(buf0) >= lenVarInt(arg.v)
           /\ ret.err \in {nil, errBufTooSmall}
    /\ op = "putVarLong" =>
           /\ ret.err = nil <=> Len(buf0) >= lenVarLong(arg.v)
           /\ ret.err \in {nil, errBufTooSmall}

C7_Witness ==
    /\ op = "putVarInt"
    /\ arg.v < 0
    /\ Len(buf0) = maxIntBytes - 1
    /\ ret.err = errBufTooSmall

\* C8: string round trip and wire format.  For every string s of at most
\* 32767 bytes and every buffer of at least lenVarInt(len(s)) + len(s) bytes,
\* putString writes VarInt(len(s)) followed by the bytes of s and returns
\* n = lenVarInt(len(s)) + len(s); getString on those bytes returns
\* (s, n, nil), and the decoded length equals the declared prefix.
C8_StringRoundTrip ==
    (/\ op = "putString"
     /\ Len(arg.s) <= 32767
     /\ Len(buf0) >= lenVarInt(Len(arg.s)) + Len(arg.s)) =>
        LET n == lenVarInt(Len(arg.s)) + Len(arg.s)
            d == getString(SubSeq(buf, 1, n))
        IN  /\ ret.err = nil
            /\ ret.n = n
            /\ SubSeq(buf, 1, n) = VarIntBytes(Len(arg.s)) \o arg.s
            /\ d = [s |-> arg.s, n |-> n, err |-> nil]
            /\ Len(d.s) = getVarInt(buf).v

C8_Witness ==
    /\ op = "putString"
    /\ Len(arg.s) = 32767
    /\ ret.err = nil
    /\ ret.n = 32770
    /\ getString(buf).s = arg.s

\* C9: getString never aborts and never reads outside the buffer: for every
\* input it returns normally, also when the length prefix decodes to a
\* negative int32 (ff ff ff ff 0f is -1).
C9_GetStringReturns == op = "getString" => ret.err # panic

\* C10: getPacket never aborts and never reads outside the buffer: for every
\* input it returns normally, also when the declared length L is below the
\* opcode's size m (00 00) or negative.
C10_GetPacketReturns == op = "getPacket" => ret.err # panic

\* C11: packet round trip and wire format.  For every packet p and every
\* large-enough buffer, putPacket writes VarInt(lenVarInt(p.id) + len(p.data)),
\* then VarInt(p.id), then p.data, and returns the number of bytes written;
\* getPacket on those bytes returns the same id and payload and the same n.
\* {id 4, data 03 02 01 00} <-> {05 04 03 02 01 00}.
C11_PacketRoundTrip ==
    LET L == lenVarInt(arg.id) + Len(arg.data)
        n == lenVarInt(L) + L
    IN  (op = "putPacket" /\ Len(buf0) >= n) =>
            /\ ret.err = nil
            /\ ret.n = n
            /\ SubSeq(buf, 1, n) = VarIntBytes(L) \o VarIntBytes(arg.id) \o arg.data
            /\ getPacket(SubSeq(buf, 1, n))
                   = [id |-> arg.id, data |-> arg.data, n |-> n, err |-> nil]
            /\ (arg.id = 4 /\ arg.data = <<3, 2, 1, 0>>) =>
                   SubSeq(buf, 1, n) = <<5, 4, 3, 2, 1, 0>>

C11_Witness ==
    /\ op = "putPacket"
    /\ arg.id = -1
    /\ Len(arg.data) = 4
    /\ ret.err = nil
    /\ ret.n = 10
    /\ getPacket(buf).id = -1

\* C12: the decoded payload is an independent copy.  After getPacket(buf)
\* succeeds, any sequence of writes to buf leaves the returned packet's data
\* unchanged, and any write to the returned data leaves buf unchanged.
C12_PayloadIsCopy ==
    /\ (op = "getPacket" /\ ret.err = nil) => Payload = ret.data
    /\ op = "getPacket, write buf" => Payload = ret.data
    /\ op = "getPacket, write data" => buf = buf0

C12_Witness ==
    /\ op = "getPacket, write buf"
    /\ Len(ret.data) = MaxData
    /\ \A i \in 1..Len(buf) : buf[i] \in WriteBytes
    /\ Payload = ret.data

\* C13: getPacket truncation.  When the length prefix (p bytes, value L) and
\* the opcode (m bytes, m <= L) decode but len(buf) < p + L, getPacket fails
\* with BufTooSmall, returns the zero packet (id 0, nil data) and n = p + m.
\* When the prefix or the opcode cannot be decoded, the VarInt error is
\* returned with n the bytes consumed so far (empty buffer: 0, {01}: 1).
C13_GetPacketTruncation ==
    op = "getPacket" =>
        LET r1 == getVarInt(buf0)
            r2 == getVarInt(From(buf0, r1.n))
            zero == ret.id = 0 /\ ret.data = <<>> /\ dataAt = NoData
        IN  /\ r1.err # nil => (zero /\ ret.err = r1.err /\ ret.n = r1.n)
            /\ (r1.err = nil /\ r2.err # nil) =>
                   (zero /\ ret.err = r2.err /\ ret.n = r1.n + r2.n)
            /\ (r1.err = nil /\ r2.err = nil /\ r2.n <= r1.v /\ Len(buf0) < r1.n + r1.v) =>
                   (zero /\ ret.err = errBufTooSmall /\ ret.n = r1.n + r2.n)
            /\ buf0 = <<>> => (ret.n = 0 /\ ret.err = errBufTooSmall)
            /\ buf0 = <<1>> => (ret.n = 1 /\ ret.err = errBufTooSmall)

C13_Witness ==
    /\ op = "getPacket"
    /\ getVarInt(buf0).err = nil
    /\ getVarInt(From(buf0, 1)).err = nil
    /\ getVarInt(buf0).v = 15
    /\ ret.err = errBufTooSmall
    /\ ret.n = 2
    /\ Len(buf0) = 3

\* C14 as stated: when the length prefix of getString's input decodes to a
\* length above 32767, getString fails with the distinct StringTooLong error
\* (not ValueTooLarge), returns the empty string and n = the prefix's bytes.
C14_StringTooLongError ==
    (op = "getString" /\ getVarInt(buf0).err = nil /\ getVarInt(buf0).v > 32767) =>
        /\ ret.err = errStringTooLong
        /\ ret.err # errValueTooLarge
        /\ ret.s = <<>>
        /\ ret.n = getVarInt(buf0).n

\* C14: when the length prefix of getString's input decodes to a length above
\* 32767, getString fails with ValueTooLarge, the error of the VarInt codec,
\* returns the empty string and n = the prefix's bytes.
C14_OversizedIsValueTooLarge ==
    (op = "getString" /\ getVarInt(buf0).err = nil /\ getVarInt(buf0).v > 32767) =>
        /\ ret.err = errValueTooLarge
        /\ ret.s = <<>>
        /\ ret.n = getVarInt(buf0).n

C14_Witness ==
    /\ op = "getString"
    /\ buf0 = <<255, 255, 2>>
    /\ getVarInt(buf0).v = 49151
    /\ ret.err = errValueTooLarge
    /\ ret.n = 3

\* C15 as stated: when the length prefix decodes to a length in 0..32767 but
\* fewer bytes follow it, getString fails with BufTooSmall and reports
\* n = prefix length + declared length, not the prefix length alone.
C15_TruncatedCountsNeeded ==
    LET r == getVarInt(buf0)
    IN  (/\ op = "getString"
         /\ r.err = nil
         /\ r.v \in 0..32767
         /\ Len(buf0) - r.n < r.v) =>
            /\ ret.err = errBufTooSmall
            /\ ret.n = r.n + r.v

\* C15: when the length prefix decodes to a length in 0..32767 but fewer
\* bytes follow it, getString fails with BufTooSmall, returns the empty
\* string and reports n = the prefix length alone.
C15_TruncatedCountsPrefix ==
    LET r == getVarInt(buf0)
    IN  (/\ op = "getString"
         /\ r.err = nil
         /\ r.v \in 0..32767
         /\ Len(buf0) - r.n < r.v) =>
            /\ ret.err = errBufTooSmall
            /\ ret.s = <<>>
            /\ ret.n = r.n

C15_Witness ==
    /\ op = "getString"
    /\ getVarInt(buf0).err = nil
    /\ getVarInt(buf0).v = 255
    /\ Len(buf0) = 3
    /\ ret.err = errBufTooSmall
    /\ ret.n = 2

\* C16: putString rejects over-long input without side effects.  For every
\* s with len(s) > 32767 and every buffer, putString returns an error with
\* n = 0 and leaves every byte of the buffer unchanged; a string of exactly
\* 32767 bytes is accepted.
C16_PutStringRejectsLong ==
    /\ (op = "putString" /\ Len(arg.s) > 32767) =>
           /\ ret.err = errValueTooLarge
           /\ ret.n = 0
           /\ buf = buf0
    /\ (op = "putString" /\ Len(arg.s) = 32767) =>
           /\ ret.err # errValueTooLarge
           /\ Len(buf0) >= 32770 => (ret.err = nil /\ ret.n = 32770)

C16_Witness ==
    /\ op = "putString"
    /\ Len(arg.s) = 32768
    /\ Len(buf0) >= 32768 + 3
    /\ ret.err = errValueTooLarge
    /\ buf = buf0

\* whether a value fits a signed field of size bits
FitsField(n, size) == -(2 ^ (size - 1)) <= n /\ n <= 2 ^ (size - 1) - 1

InRange(p) == FitsField(p.x, xSize) /\ FitsField(p.y, ySize) /\ FitsField(p.z, zSize)

\* C17: position round trip.  For every position with x and z in
\* [-2^25, 2^25 - 1] and y in [-2^11, 2^11 - 1], putPosition into a buffer of
\* at least 8 bytes returns (8, nil), and getPosition on those 8 bytes returns
\* the same x, y, z (negative values restored by sign extension) with n = 8.
C17_PositionRoundTrip ==
    (op = "putPosition" /\ InRange(arg) /\ Len(buf0) >= 8) =>
        /\ ret = [n |-> 8, err |-> nil]
        /\ getPosition(SubSeq(buf, 1, 8)) = [p |-> arg, n |-> 8, err |-> nil]

C17_Witness ==
    /\ op = "putPosition"
    /\ arg = [x |-> -(2 ^ 25), y |-> -(2 ^ 11), z |-> -513]
    /\ Len(buf0) >= 8
    /\ getPosition(buf).p = arg

\* bit i of the big-endian word held in the first 8 bytes of b
WireBit(b, i) == (b[8 - (i \div 8)] \div (2 ^ (i % 8))) % 2

\* bit i of ((x mod 2^26) << 38) | ((y mod 2^12) << 26) | (z mod 2^26)
LayoutBit(p, i) ==
    IF i >= 38 THEN ((p.x % (2 ^ 26)) \div (2 ^ (i - 38))) % 2
    ELSE IF i >= 26 THEN ((p.y % (2 ^ 12)) \div (2 ^ (i - 26))) % 2
    ELSE ((p.z % (2 ^ 26)) \div (2 ^ i)) % 2

\* C18: position wire layout.  putPosition writes the big-endian 64-bit word
\* ((x mod 2^26) << 38) | ((y mod 2^12) << 26) | (z mod 2^26): x in bits
\* 63..38, y in bits 37..26, z in bits 25..0.  {257, 42, -513} gives
\* 00 00 40 40 ab ff fd ff and the zero position gives eight zero bytes.
C18_PositionWireLayout ==
    (op = "putPosition" /\ Len(buf0) >= 8) =>
        /\ \A i \in 0..63 : WireBit(buf, i) = LayoutBit(arg, i)
        /\ arg = [x |-> 257, y |-> 42, z |-> -513] =>
               SubSeq(buf, 1, 8) = <<0, 0, 64, 64, 171, 255, 253, 255>>
        /\ arg = zeroPosition => SubSeq(buf, 1, 8) = <<0, 0, 0, 0, 0, 0, 0, 0>>

C18_Witness ==
    /\ op = "putPosition"
    /\ arg = [x |-> 257, y |-> 42, z |-> -513]
    /\ Len(buf0) >= 8
    /\ \E i \in 1..8 : buf0[i] # 0
    /\ SubSeq(buf, 1, 8) = <<0, 0, 64, 64, 171, 255, 253, 255>>

\* the bits of the word in the first 8 bytes of b that lie outside the field
\* of size bits at offset
OtherBits(b, size, offset) ==
    [i \in {j \in 0..63 : j < offset \/ j >= offset + size} |-> WireBit(b, i)]

\* the encoding of a position into a fresh buffer
PositionBytes(p) == putPosition(Run(0, positionLen), p).buf

\* the in-range value with the same low size bits as n
WrapField(n, size) ==
    LET m == n % (2 ^ size)
    IN  IF m >= 2 ^ (size - 1) THEN (m - 2 ^ (size - 1)) - 2 ^ (size - 1) ELSE m

\* C19 as stated: putPosition performs no range validation, and a field value
\* outside its signed width aliases into the neighbouring bit fields: it
\* changes bits of the encoded word that belong to another field.
C19_OutOfRangeSpills ==
    (op = "putPosition" /\ Len(buf0) >= 8) =>
        /\ ret.err = nil
        /\ ~FitsField(arg.x, xSize) =>
               OtherBits(buf, xSize, xOffset)
                   # OtherBits(PositionBytes([arg EXCEPT !.x = 0]), xSize, xOffset)
        /\ ~FitsField(arg.y, ySize) =>
               OtherBits(buf, ySize, yOffset)
                   # OtherBits(PositionBytes([arg EXCEPT !.y = 0]), ySize, yOffset)
        /\ ~FitsField(arg.z, zSize) =>
               OtherBits(buf, zSize, zOffset)
                   # OtherBits(PositionBytes([arg EXCEPT !.z = 0]), zSize, zOffset)

\* C19: putPosition performs no range validation: a position with a field
\* outside its signed width is encoded with (8, nil).  The field keeps its
\* low size bits only, so it decodes as the in-range value congruent to it
\* modulo 2^size, and no bit of the word that belongs to another field
\* changes.
C19_OutOfRangeWraps ==
    (op = "putPosition" /\ Len(buf0) >= 8 /\ ~InRange(arg)) =>
        /\ ret = [n |-> 8, err |-> nil]
        /\ getPosition(buf).p = [x |-> WrapField(arg.x, xSize),
                                 y |-> WrapField(arg.y, ySize),
                                 z |-> WrapField(arg.z, zSize)]
        /\ OtherBits(buf, xSize, xOffset)
               = OtherBits(PositionBytes([arg EXCEPT !.x = 0]), xSize, xOffset)
        /\ OtherBits(buf, ySize, yOffset)
               = OtherBits(PositionBytes([arg EXCEPT !.y = 0]), ySize, yOffset)
        /\ OtherBits(buf, zSize, zOffset)
               = OtherBits(PositionBytes([arg EXCEPT !.z = 0]), zSize, zOffset)

C19_Witness ==
    /\ op = "putPosition"
    /\ Len(buf0) >= 8
    /\ arg = [x |-> 2 ^ 25, y |-> -MaxInt16 - 1, z |-> MinInt32]
    /\ ret.err = nil
    /\ getPosition(buf).p = [x |-> -(2 ^ 25), y |-> 0, z |-> 0]

\* C20: position buffer bounds.  On a buffer shorter than 8 bytes
\* getPosition and putPosition fail with BufTooSmall and report len(buf);
\* getPosition returns the zero position and putPosition writes nothing.  On
\* a buffer of 8 or more bytes they succeed with 8 and read or write only the
\* first 8 bytes.
C20_PositionBufferBounds ==
    /\ (op = "getPosition" /\ Len(buf0) < 8) =>
           ret = [p |-> zeroPosition, n |-> Len(buf0), err |-> errBufTooSmall]
    /\ (op = "getPosition" /\ Len(buf0) >= 8) =>
           /\ ret.err = nil
           /\ ret.n = 8
           /\ ret.p = getPosition(SubSeq(buf0, 1, 8)).p
           /\ buf = buf0
    /\ (op = "putPosition" /\ Len(buf0) < 8) =>
           /\ ret = [n |-> Len(buf0), err |-> errBufTooSmall]
           /\ buf = buf0
    /\ (op = "putPosition" /\ Len(buf0) >= 8) =>
           /\ ret = [n |-> 8, err |-> nil]
           /\ Len(buf) = Len(buf0)
           /\ From(buf, 8) = From(buf0, 8)

C20_Witness ==
    /\ op = "putPosition"
    /\ Len(buf0) = 7
    /\ buf0[1] # 0
    /\ arg.x = -1
    /\ ret = [n |-> 7, err |-> errBufTooSmall]
    /\ buf = buf0

\* putPacketRun is putPacket on the packet with the data written out
PutPacketRunAgrees ==
    (op = "putPacketRun" /\ arg.len <= MaxData) =>
        LET r == putPacket(buf0, [id |-> arg.id, data |-> Run(arg.fill, arg.len)])
        IN  buf = r.buf /\ ret = [n |-> r.n, err |-> r.err]

\* the size limit of putPacket in src/types.go alone
TypesGoPutPacketSizeLimit ==
    op = "putPacketRun" =>
        /\ arg.len > MaxInt32 - lenVarInt(arg.id) =>
               (ret.err = errValueTooLarge /\ ret.n = 0 /\ buf = buf0)
        /\ arg.len = MaxInt32 - lenVarInt(arg.id) => ret.err # errValueTooLarge

\* C21: putPacket size limit.  When lenVarInt(p.id) + len(p.data) exceeds
\* 2^31 - 1, putPacket, in src/types.go and in src/unnamed/part_001, fails
\* with ValueTooLarge, reports 0 bytes written and leaves the buffer
\* unchanged; at exactly 2^31 - 1 it does not raise this error.
C21_PutPacketSizeLimit ==
    op \in {"putPacketRun", "part001_putPacketRun"} =>
        /\ arg.len > MaxInt32 - lenVarInt(arg.id) =>
               (ret.err = errValueTooLarge /\ ret.n = 0 /\ buf = buf0)
        /\ arg.len = MaxInt32 - lenVarInt(arg.id) => ret.err # errValueTooLarge

\* the complete encoding the call would have left in a buffer with room for it
FullEncoding ==
    IF op = "putVarInt" THEN VarIntBytes(arg.v)
    ELSE IF op = "putVarLong"
    THEN LET r == putVarLong(Run(0, maxLongBytes), arg.v) IN SubSeq(r.buf, 1, r.n)
    ELSE IF op = "putString"
    THEN LET r == putString(Run(0, maxIntBytes + Len(arg.s)), arg.s)
         IN  SubSeq(r.buf, 1, r.n)
    ELSE LET r == putPacket(Run(0, 2 * maxIntBytes + Len(arg.data)), arg)
         IN  SubSeq(r.buf, 1, r.n)

\* C22: partial-write reporting on encode.  Whenever putVarInt, putVarLong,
\* putString or putPacket fails with BufTooSmall, the returned count equals
\* len(buf) and the buffer holds exactly the first len(buf) bytes of the
\* complete encoding that a large-enough buffer would have received.
C22_PartialWrite ==
    (/\ op \in {"putVarInt", "putVarLong", "putString", "putPacket"}
     /\ ret.err = errBufTooSmall) =>
        /\ ret.n = Len(buf0)
        /\ Len(buf) = Len(buf0)
        /\ Len(FullEncoding) > Len(buf0)
        /\ buf = SubSeq(FullEncoding, 1, Len(buf0))

C22_Witness ==
    /\ op = "putPacket"
    /\ ret.err = errBufTooSmall
    /\ arg.id = -1
    /\ Len(arg.data) = 4
    /\ ret.n = 8
    /\ buf # buf0
    /\ buf[8] = arg.data[2]

Decoders == {"getVarInt", "getVarLong", "getString", "getPosition", "getPacket"}

\* C23: consumed-count bound on decode.  For every decoder and every input
\* buffer, whether the call returns a value or an error, the returned count
\* n satisfies 0 <= n <= len(buf); on BufTooSmall from getVarInt, getVarLong
\* and getPosition n equals len(buf).  (A call the runtime aborts returns no
\* count.)
C23_ConsumedBound ==
    (op \in Decoders /\ ret.err # panic) =>
        /\ 0 <= ret.n
        /\ ret.n <= Len(buf0)
        /\ (op \in {"getVarInt", "getVarLong", "getPosition"} /\ ret.err = errBufTooSmall) =>
               ret.n = Len(buf0)

C23_Witness ==
    /\ op = "getPosition"
    /\ Len(buf0) = 7
    /\ buf0[1] # 0
    /\ ret.err = errBufTooSmall
    /\ ret.n = 7

\* C24: concurrent use.  The codec keeps no mutable state between calls, so
\* for any interleaving of calls issued by several threads on pairwise
\* disjoint buffers, every call returns the same result and leaves its buffer
\* in the same state as when that call runs alone.
C24_ThreadsAsAlone ==
    \A t \in Threads :
        thr[t].pc = "done" =>
            IF thr[t].call = "getVarInt"
            THEN /\ thr[t].ret = getVarInt(thr[t].buf0)
                 /\ cbuf[t] = thr[t].buf0
            ELSE LET r == putVarInt(thr[t].buf0, thr[t].v)
                 IN  /\ thr[t].ret = [v |-> 0, n |-> r.n, err |-> r.err]
                     /\ cbuf[t] = r.buf

C24_Witness ==
    /\ thr[1].pc = "done" /\ thr[1].mixed
    /\ thr[2].pc = "done" /\ thr[2].mixed
    /\ thr[1].call = "putVarInt" /\ thr[1].v = -1 /\ thr[1].ret.n = maxIntBytes
    /\ thr[2].call = "getVarInt" /\ thr[2].ret.v = -1 /\ thr[2].ret.n = maxIntBytes
    /\ cbuf[1] = cbuf[2]

\* C25: the other convention of src/varint.go.  Its getVarN and putVarN, on
\* BufTooSmall, report maxBytes (5 for VarInt, 10 for VarLong) whatever
\* len(buf) is, so the count exceeds len(buf) on every such failure (empty
\* buffer: 5 / 10, buffer {ff}: 5 / 10); results with nil and with
\* ValueTooLarge are those of src/types.go.
C25_VarintGoConvention ==
    /\ op = "varint.getVarN" =>
           LET r == getVarN(buf0, arg.maxBytes)
           IN  /\ ret.err = r.err
               /\ ret.v = r.v
               /\ ret.err = errBufTooSmall =>
                      (ret.n = arg.maxBytes /\ ret.n > Len(buf0))
               /\ ret.err # errBufTooSmall => ret.n = r.n
               /\ buf0 \in {<<>>, <<255>>} =>
                      (ret.err = errBufTooSmall /\ ret.n = arg.maxBytes)
    /\ op = "varint.putVarN" =>
           LET r == putVarN(buf0, arg.v, arg.maxBytes)
           IN  /\ ret.err = r.err
               /\ ret.err = errBufTooSmall =>
                      (ret.n = arg.maxBytes /\ ret.n > Len(buf0))
               /\ ret.err # errBufTooSmall => (ret.n = r.n /\ buf = r.buf)

C25_Witness ==
    /\ op = "varint.getVarN"
    /\ arg.maxBytes = maxLongBytes
    /\ buf0 = <<255>>
    /\ ret.err = errBufTooSmall
    /\ ret.n = maxLongBytes
    /\ getVarN(buf0, maxLongBytes).n = 1

\* C26: putPosition of src/unnamed/part_000, called with a buffer of at
\* least 8 bytes, returns (8, nil) and leaves the buffer holding the
\* big-endian 64-bit packed word of the position, so that its getPosition
\* on that buffer returns the original in-range position.
C26_Part000PutPosition ==
    (op = "part000.putPosition" /\ Len(buf0) >= 8 /\ InRange(arg)) =>
        /\ ret = [n |-> 8, err |-> nil]
        /\ \A i \in 0..63 : WireBit(buf, i) = LayoutBit(arg, i)
        /\ part000_getPosition(buf) = [p |-> arg, n |-> 8, err |-> nil]

\* C27: sequential framing.  If buf is the concatenation of the putPacket
\* encodings of p1..pk, then calling getPacket(buf[offset:]) from offset 0
\* and advancing offset by the returned count yields p1..pk in order with no
\* error and ends with offset = len(buf); each call's result is independent
\* of the bytes that follow its own frame.
C27_SequentialFraming ==
    op = "stream" =>
        LET k == Len(ret.ps)
        IN  /\ ret.err = nil
            /\ k <= Len(arg)
            /\ ret.ps = SubSeq(arg, 1, k)
            /\ ret.n = Len(Frames(arg, k))
            /\ ret.n = Len(buf) <=> k = Len(arg)
            /\ k < Len(arg) =>
                   getPacket(From(buf, ret.n)) = getPacket(PacketBytes(arg[k + 1]))

C27_Witness ==
    /\ op = "stream"
    /\ Len(arg) = MaxFrames
    /\ ret.ps = arg
    /\ ret.n = Len(buf)
    /\ arg[1] = [id |-> -1, data |-> <<1, 0>>]
    /\ arg[2].id = 4
    /\ arg[2] # arg[3]

Encoders == {"putVarInt", "putVarLong", "putString", "putPosition", "putPacket"}

\* C28: write frame of the encoders.  For every call of putVarInt,
\* putVarLong, putString, putPosition or putPacket, successful or not, with
\* returned count n, every buffer byte at index >= n keeps its previous
\* value; and no decoder modifies its input buffer.
C28_WriteFrame ==
    /\ op \in Encoders =>
           /\ Len(buf) = Len(buf0)
           /\ \A i \in (ret.n + 1)..Len(buf0) : buf[i] = buf0[i]
    /\ op \in Decoders => buf = buf0

C28_Witness ==
    /\ op = "putString"
    /\ ret.err = nil
    /\ ret.n = 1 + MaxStr
    /\ Len(buf0) > ret.n
    /\ buf0[1] # 0
    /\ From(buf, ret.n) = From(buf0, ret.n)
    /\ SubSeq(buf, 1, ret.n) # SubSeq(buf0, 1, ret.n)

\* bit j of the sum of the 7-bit groups of the first n bytes of b, each
\* weighted by 2^(7i)
GroupBit(b, n, j) ==
    IF j \div cbits < n THEN (BitAnd(b[(j \div cbits) + 1], cmask) \div (2 ^ (j % cbits))) % 2
    ELSE 0

\* an encoding of minimal length with no bit beyond the width w of the value
Canonical(b, n, w) ==
    /\ n = 1 \/ b[n] # 0
    /\ n * cbits > w => b[n] < 2 ^ (w - (n - 1) * cbits)

\* C29: overflow bits in the final byte are discarded silently.  For every
\* input getVarInt accepts, the result is the sum of the 7-bit groups
\* weighted by 2^(7i), reduced modulo 2^32 and read as signed, with no
\* ValueTooLarge even when the fifth byte has bits 4..6 set (ff ff ff ff 7f
\* decodes to -1, as ff ff ff ff 0f does); getVarLong reduces modulo 2^64
\* and ignores bits 1..6 of a terminating tenth byte.  So decoding is not
\* injective, and re-encoding the decoded value reproduces the consumed
\* bytes only for canonical inputs and never gives more bytes than were
\* consumed.
C29_OverflowBitsDiscarded ==
    /\ op = "getVarInt" =>
           /\ ret.err = nil <=> (\E k \in 1..Min(Len(buf0), maxIntBytes) : buf0[k] < msb)
           /\ ret.err = nil =>
                  /\ ret.v = IntOf32([j \in 1..W32 |-> GroupBit(buf0, ret.n, j - 1)])
                  /\ lenVarInt(ret.v) <= ret.n
                  /\ VarIntBytes(ret.v) = SubSeq(buf0, 1, ret.n)
                         <=> Canonical(buf0, ret.n, W32)
           /\ buf0 = <<255, 255, 255, 255, 127>> =>
                  /\ ret = [v |-> -1, n |-> 5, err |-> nil]
                  /\ ret = getVarInt(<<255, 255, 255, 255, 15>>)
    /\ op = "getVarLong" =>
           /\ ret.err = nil <=> (\E k \in 1..Min(Len(buf0), maxLongBytes) : buf0[k] < msb)
           /\ ret.err = nil =>
                  /\ ret.v = [j \in 1..W64 |-> GroupBit(buf0, ret.n, j - 1)]
                  /\ lenVarLong(ret.v) <= ret.n
                  /\ LET r == putVarLong(Run(0, maxLongBytes), ret.v)
                     IN  SubSeq(r.buf, 1, r.n) = SubSeq(buf0, 1, ret.n)
                             <=> Canonical(buf0, ret.n, W64)
           /\ buf0 = Run(255, 9) \o <<127>> =>
                  /\ ret.err = nil
                  /\ ret.n = 10
                  /\ ret = getVarLong(Run(255, 9) \o <<1>>)

C29_Witness ==
    /\ op = "getVarInt"
    /\ buf0 = <<255, 255, 255, 255, 127>>
    /\ ret = [v |-> -1, n |-> 5, err |-> nil]
    /\ VarIntBytes(ret.v) = <<255, 255, 255, 255, 15>>

\* C30: position decode-then-encode is the identity on bytes.  For every
\* 8-byte buffer b, getPosition(b) succeeds and putPosition of the returned
\* position writes exactly b again: the three fields partition the 64 bits
\* and each decoded field fits its struct type.
C30_PositionDecodeEncode ==
    (op = "getPosition" /\ Len(buf0) >= 8) =>
        /\ ret.err = nil
        /\ InRange(ret.p)
        /\ LET r == putPosition(Run(0, positionLen), ret.p)
           IN  /\ r.err = nil
               /\ r.n = 8
               /\ r.buf = SubSeq(buf0, 1, 8)

C30_Witness ==
    /\ op = "getPosition"
    /\ buf0 = <<127, 128, 127, 128, 127, 128, 127, 128>>
    /\ ret.err = nil
    /\ ret.p.z < 0
    /\ putPosition(Run(0, positionLen), ret.p).buf = buf0

====
